---- MODULE Spec2Model ----
(***************************************************************************)
(* State-machine model of LynxThermalCycleManager (src/src/core/           *)
(* lynx_thermal_cycle.py) and of the step profile it runs                  *)
(* (src/src/core/temp.py).                                                 *)
(*                                                                         *)
(* Units.  Time is in whole seconds.  Temperatures, bands and tolerances   *)
(* are in tenths of a degree Celsius (250 is 25.0 C); the chamber setpoint *)
(* and the PID output are in thousandths of a degree, so that the gains    *)
(* Kp = 0.1 and Ki = 0.02 act exactly on integers.  The factors 1.1, 0.95, *)
(* 0.75 and 0.5 of the source are applied by cross-multiplication.         *)
(*                                                                         *)
(* Clock.  time.time() is the variable now.  It advances by the argument   *)
(* of every time.sleep() and by the length of every busy-wait loop.  The   *)
(* program only ever uses differences of timestamps, and holds none when   *)
(* _wait_until_stable is entered, so the origin of the clock is re-chosen  *)
(* (now = 0) at each entry of _wait_until_stable.                          *)
(***************************************************************************)
EXTENDS Integers, Sequences, FiniteSets, TLC

\* ------------------------------------------------------------------ bounds

\* The phase-2 loop has no exit while readings keep arriving that are not
\* stable; the model follows it this many polls past its ceiling and stops.
MaxOverrunPolls == 2

\* The number of consecutive in-band polls taken as "a small number" when the
\* arrival of a RAMP is stated.
RampArrivalPolls == 3

\* The longest profile among the scenarios, in steps.
MaxProfileLen == 2

\* The time between two writes of a setpoint is remembered up to this many
\* seconds, and the run of polls without a measurement up to this many polls.
MaxSetpointGap == 1000

MaxMissingRun == 6

\* ----------------------------------------------------------------- helpers

Max(a, b) == IF a >= b THEN a ELSE b

Min(a, b) == IF a <= b THEN a ELSE b

Abs(a) == IF a >= 0 THEN a ELSE -a

Clamp(lo, hi, x) == Max(lo, Min(hi, x))

\* Python's "x or d" on a number: a zero (or absent) value is replaced by d.
OrDefault(x, d) == IF x = 0 THEN d ELSE x

\* ------------------------------------------------------------ step profile

\* BaseTempStep.__init__: the value of every field a profile entry leaves out.
\* cycle_count, num_cycles and the INT_CYCLE fields are extra attributes
\* (kwargs); 0 stands for an attribute the entry does not declare.
BaseTempStep ==
    [ step_name |-> "step", temp_cycle_type |-> "", temperature |-> 0,
      target_temp_delta |-> 0, temp_controller_offset |-> 0,
      settlement_tolerance |-> 6, settlement_window |-> 300,
      monitoring_interval |-> 3, initial_delay |-> 60, total_time |-> 0,
      voltage |-> 0, current |-> 0, power_off_after |-> FALSE,
      pin_pout_functional |-> FALSE, sig_a_performance |-> FALSE,
      na_performance |-> FALSE,
      cycle_count |-> 0, num_cycles |-> 0, high_temp |-> 0, low_temp |-> 0,
      high_temp_offset |-> 0, low_temp_offset |-> 0,
      soak_time_after_switch |-> 0, even_cycle_voltage |-> 0,
      odd_cycle_voltage |-> 0 ]

\* create_temp_step: CYCLE, DWELL, RAMP and SOAK entries become the subclass
\* that fixes temp_cycle_type; any other type (INT_CYCLE included) stays a
\* BaseTempStep carrying the type the entry declares.
create_temp_step(entry) ==
    LET t == entry.temp_cycle_type IN
    IF t \in {"CYCLE", "DWELL", "RAMP", "SOAK"}
    THEN [entry EXCEPT !.temp_cycle_type = t]
    ELSE entry

\* CycleStep.is_cycle_step / BaseTempStep.is_cycle_step.
is_cycle_step(step) == step.temp_cycle_type = "CYCLE"

\* BaseTempStep.expand_cycles, which CycleStep does not override.
expand_cycles(step) == <<step>>

RECURSIVE expand_all_cycles(_)
\* TempProfileManager.expand_all_cycles.
expand_all_cycles(steps) ==
    IF steps = <<>> THEN <<>>
    ELSE (IF is_cycle_step(Head(steps)) THEN expand_cycles(Head(steps))
          ELSE <<Head(steps)>>) \o expand_all_cycles(Tail(steps))

\* TempProfileManager.__init__ / get_all_steps on a well-formed document.
get_all_steps(document) ==
    expand_all_cycles([i \in DOMAIN document |-> create_temp_step(document[i])])

\* ---------------------------------------------------------------- scenarios

(***************************************************************************)
(* A scenario fixes what the run is given: the manager's simulation_mode,  *)
(* the chamber controller (absent: temp_controller is None; ok: it answers *)
(* every query; dead: it is connected and every read fails), the probe     *)
(* (offsets: the errors, relative to the target being approached, a        *)
(* reading can show; missing: a read can fail), the measurement paths of   *)
(* the test manager, and the profile document.                             *)
(***************************************************************************)
Dwell25 ==
    [BaseTempStep EXCEPT !.step_name = "dwell25", !.temp_cycle_type = "DWELL",
        !.temperature = 250, !.target_temp_delta = 10,
        !.settlement_tolerance = 20, !.settlement_window = 1200,
        !.monitoring_interval = 600, !.total_time = 1, !.voltage = 28,
        !.current = 2, !.power_off_after = TRUE,
        !.pin_pout_functional = TRUE, !.sig_a_performance = TRUE]

Soak40 ==
    [BaseTempStep EXCEPT !.step_name = "soak40", !.temp_cycle_type = "SOAK",
        !.temperature = 400, !.target_temp_delta = 10,
        !.settlement_tolerance = 20, !.settlement_window = 1800,
        !.monitoring_interval = 600, !.na_performance = TRUE]

Ramp40 ==
    [BaseTempStep EXCEPT !.step_name = "ramp40", !.temp_cycle_type = "RAMP",
        !.temperature = 400, !.target_temp_delta = 10,
        !.settlement_tolerance = 20, !.settlement_window = 2400,
        !.monitoring_interval = 600]

\* Window 620 s polled every 600 s: the retained window never covers 620 s.
DwellNearFull ==
    [Dwell25 EXCEPT !.step_name = "dwellNearFull", !.settlement_window = 620,
        !.total_time = 0, !.power_off_after = FALSE]

\* Scenario A of the specification: 25.0 C, tolerance 0.6 C, window 10 s, the
\* monitoring interval left at its default of 3 s.
DwellScenarioA ==
    [BaseTempStep EXCEPT !.step_name = "scenarioA", !.temp_cycle_type = "DWELL",
        !.temperature = 250, !.settlement_tolerance = 6,
        !.settlement_window = 10]

\* Scenario B of the specification: cycle_count 2, high 70 C, low -20 C.
IntCycleB ==
    [BaseTempStep EXCEPT !.step_name = "scenarioB",
        !.temp_cycle_type = "INT_CYCLE", !.cycle_count = 2,
        !.high_temp = 700, !.low_temp = -200, !.target_temp_delta = 10,
        !.settlement_tolerance = 20, !.settlement_window = 1200,
        !.monitoring_interval = 600, !.soak_time_after_switch = 1,
        !.even_cycle_voltage = 28, !.odd_cycle_voltage = 30,
        !.power_off_after = TRUE]

\* The same step declaring its repetitions under the name the orchestrator reads.
IntCycleNum == [IntCycleB EXCEPT !.step_name = "intCycleNum", !.num_cycles = 2]

\* A band wider than the tolerance: a reading can be in band while the window
\* spans more than the tolerance.
DwellWide ==
    [Dwell25 EXCEPT !.step_name = "dwellWide", !.target_temp_delta = 30,
        !.total_time = 0]

Cycle2 ==
    [IntCycleB EXCEPT !.step_name = "cycle2", !.temp_cycle_type = "CYCLE",
        !.temperature = 700]

\* A plateau far from where the chamber is: 40.0 C, window 120 s, polled every
\* 30 s, so that phase 1 has time for more than ten PID adjustments.
DwellFar ==
    [BaseTempStep EXCEPT !.step_name = "dwellFar", !.temp_cycle_type = "DWELL",
        !.temperature = 400, !.target_temp_delta = 10,
        !.settlement_tolerance = 20, !.settlement_window = 120,
        !.monitoring_interval = 30]

\* A plateau that settles within seconds: 25.0 C, window 10 s, polled every
\* 5 s after an initial delay of 5 s.
DwellQuick ==
    [BaseTempStep EXCEPT !.step_name = "dwellQuick",
        !.temp_cycle_type = "DWELL", !.temperature = 250,
        !.target_temp_delta = 10, !.settlement_tolerance = 20,
        !.settlement_window = 10, !.monitoring_interval = 5,
        !.initial_delay = 5]

\* The quick plateau with two test families enabled.
DwellTested ==
    [DwellQuick EXCEPT !.step_name = "dwellTested",
        !.pin_pout_functional = TRUE, !.sig_a_performance = TRUE]

\* A quick ramp with the DUT powered at 12 V and a forced power-off after it.
RampPowered ==
    [DwellQuick EXCEPT !.step_name = "rampPowered",
        !.temp_cycle_type = "RAMP", !.temperature = 400, !.voltage = 12,
        !.current = 1, !.power_off_after = TRUE]

\* A plateau whose polls fall 21 s apart from the first, the window being 20 s.
DwellOffGrid ==
    [DwellQuick EXCEPT !.step_name = "dwellOffGrid",
        !.settlement_window = 20, !.monitoring_interval = 7]

\* A dwell that declares no initial delay and a zero settlement tolerance.
DwellZero ==
    [DwellQuick EXCEPT !.step_name = "dwellZero", !.initial_delay = 0,
                       !.settlement_tolerance = 0]

Scenarios ==
    << [simulation_mode |-> FALSE, controller |-> "absent",
        offsets |-> {0, 20}, missing |-> TRUE, faults |-> {},
        paths |-> <<"P1", "P2">>, document |-> <<Dwell25>>],
       [simulation_mode |-> TRUE, controller |-> "absent",
        offsets |-> {0, 20}, missing |-> TRUE, faults |-> {},
        paths |-> <<>>, document |-> <<Soak40>>],
       [simulation_mode |-> FALSE, controller |-> "dead",
        offsets |-> {0, 20}, missing |-> FALSE, faults |-> {},
        paths |-> <<"P1">>, document |-> <<Ramp40>>],
       [simulation_mode |-> FALSE, controller |-> "ok",
        offsets |-> {0, 20}, missing |-> TRUE, faults |-> {},
        paths |-> <<"P1">>, document |-> <<DwellNearFull, Ramp40>>],
       [simulation_mode |-> FALSE, controller |-> "absent",
        offsets |-> {0, 30}, missing |-> FALSE, faults |-> {},
        paths |-> <<"P1">>, document |-> <<DwellWide>>],
       [simulation_mode |-> TRUE, controller |-> "absent",
        offsets |-> {0}, missing |-> FALSE, faults |-> {},
        paths |-> <<"P1">>, document |-> <<DwellScenarioA>>],
       [simulation_mode |-> FALSE, controller |-> "dead",
        offsets |-> {}, missing |-> TRUE, faults |-> {},
        paths |-> <<"P1">>, document |-> <<Dwell25, Soak40>>],
       [simulation_mode |-> TRUE, controller |-> "absent",
        offsets |-> {}, missing |-> TRUE, faults |-> {},
        paths |-> <<"P1">>, document |-> <<Dwell25, Ramp40>>],
       [simulation_mode |-> TRUE, controller |-> "absent",
        offsets |-> {0}, missing |-> FALSE, faults |-> {},
        paths |-> <<"P1", "P2">>, document |-> <<IntCycleB, Dwell25>>],
       [simulation_mode |-> TRUE, controller |-> "absent",
        offsets |-> {0}, missing |-> FALSE, faults |-> {},
        paths |-> <<"P1", "P2">>, document |-> <<IntCycleNum>>],
       [simulation_mode |-> TRUE, controller |-> "absent",
        offsets |-> {0}, missing |-> FALSE, faults |-> {},
        paths |-> <<"P1">>, document |-> <<Cycle2, Dwell25>>],
       [simulation_mode |-> FALSE, controller |-> "ok",
        offsets |-> {-500}, missing |-> FALSE, faults |-> {},
        paths |-> <<"P1">>, document |-> <<DwellFar>>],
       [simulation_mode |-> FALSE, controller |-> "ok",
        offsets |-> {0}, missing |-> FALSE, faults |-> {},
        paths |-> <<"P1">>, document |-> <<DwellQuick, Ramp40>>],
       [simulation_mode |-> FALSE, controller |-> "ok",
        offsets |-> {0}, missing |-> FALSE,
        faults |-> {"setpoint_write"},
        paths |-> <<"P1">>, document |-> <<DwellQuick>>],
       [simulation_mode |-> FALSE, controller |-> "ok",
        offsets |-> {0}, missing |-> FALSE,
        faults |-> {"probe_raises", "test_raises", "rolling_raises"},
        paths |-> <<"P1">>, document |-> <<DwellTested, IntCycleB>>],
       [simulation_mode |-> TRUE, controller |-> "absent",
        offsets |-> {0}, missing |-> FALSE, faults |-> {},
        paths |-> <<"P1">>, document |-> <<RampPowered, DwellQuick>>],
       [simulation_mode |-> TRUE, controller |-> "absent",
        offsets |-> {0}, missing |-> FALSE, faults |-> {"user_interrupt"},
        paths |-> <<"P1">>, document |-> <<RampPowered>>],
       [simulation_mode |-> TRUE, controller |-> "absent",
        offsets |-> {0}, missing |-> FALSE, faults |-> {"live_view"},
        paths |-> <<"P1">>, document |-> <<DwellQuick, DwellQuick>>],
       [simulation_mode |-> TRUE, controller |-> "absent",
        offsets |-> {0}, missing |-> FALSE,
        faults |-> {"callback_raises", "telemetry_raises"},
        paths |-> <<"P1">>, document |-> <<RampPowered>>],
       [simulation_mode |-> FALSE, controller |-> "absent",
        offsets |-> {0}, missing |-> FALSE, faults |-> {},
        paths |-> <<"P1">>, document |-> <<DwellOffGrid>>],
       [simulation_mode |-> FALSE, controller |-> "absent",
        offsets |-> {0}, missing |-> FALSE, faults |-> {},
        paths |-> <<"P1">>, document |-> <<DwellZero>>],
       [simulation_mode |-> FALSE, controller |-> "absent",
        offsets |-> {50}, missing |-> FALSE, faults |-> {},
        paths |-> <<"P1">>, document |-> <<DwellQuick>>] >>

\* -------------------------------------------------------------------- state

VARIABLES
    sc,                    \* the scenario of this run (index into Scenarios)
    idx,                   \* run_thermal_cycle: index of the current step
    pc,                    \* the control thread's position
    now,                   \* time.time()
    psu_output,            \* the PSU's output state
    psu_voltage,           \* the PSU's programmed voltage
    psu_current,           \* the PSU's programmed current limit
    cyc_i,                 \* INT_CYCLE: the loop variable i
    path_i,                \* index of the next path of a test loop
    wp,                    \* _wait_until_stable: its arguments
    ret,                   \* where _wait_until_stable returns to
    sp,                    \* the setpoint last commanded by the wait
    integ,                 \* PID integrator
    last_pid_ts,           \* time of the last PID adjustment (-1: None)
    missing_meas_count,    \* polls without a measurement
    phase1_start,          \* start of phase 1
    phase1_window_values,  \* phase-1 rolling window of <<ts, value>>
    window_values,         \* phase-2 rolling window of <<ts, value>>
    end_required,          \* phase 2: the grace deadline
    settle_start,          \* phase 2: its start
    loop_end,              \* end of the initial delay / adjustment settle / dwell
    waitResult,            \* how the last wait ended
    pollKinds,             \* history: the kinds of poll outcome of this wait
    inBandRun,             \* history: consecutive in-band polls, up to RampArrivalPolls
    lastViolation,         \* history: time of the last phase-2 violation (-1: none)
    missingRun,            \* history: consecutive polls without a measurement
    applied,               \* history: the writes of a setpoint to the controller
    telemetry_last_ts,     \* _telemetry_last_ts, in half-seconds
    csv,                   \* the telemetry rows written by run_thermal_cycle
    user_cb,               \* _user_telemetry_callback: "none" or "attached"
    other_runs,            \* executions of run_thermal_cycle in other threads
    telemetry_file,        \* the lines of a telemetry CSV, each a text
    profile_document,      \* the content of a profile file
    profile_load,          \* TempProfileManager: how far the loading got
    cli_args,              \* run_thermal_cycle_cli: what main is given
    runner,                \* main and LynxThermalCycleRunner: their state
    log                    \* history: the milestones of the current step, in order

waitVars ==
    << wp, ret, sp, integ, last_pid_ts, missing_meas_count, phase1_start,
       phase1_window_values, window_values, end_required, settle_start >>

histVars == << pollKinds, inBandRun, lastViolation, missingRun >>

psuVars == << psu_output, psu_voltage, psu_current >>

telVars == << telemetry_last_ts, csv >>

uiVars == << user_cb, other_runs >>

\* The state of a run of run_thermal_cycle.
cycleVars ==
    << sc, idx, pc, now, psuVars, cyc_i, path_i, waitVars, loop_end,
       waitResult, histVars, applied, telVars, uiVars, log >>

\* The state of the parts of the program that are followed on their own.
sideVars ==
    << telemetry_file, profile_document, profile_load, cli_args, runner >>

vars == << cycleVars, sideVars >>

Scen == Scenarios[sc]

\* The mode as it would be if the missing-measurement exits were not tied to it.
mode_not_consulted == TRUE

\* self.simulation_mode.
simulation_mode == Scen.simulation_mode

\* run_thermal_cycle: all_steps.
all_steps == get_all_steps(Scen.document)

\* run_thermal_cycle: the step of the current iteration.
step == all_steps[idx]

\* The arguments of a wait that is not running.
NoWait ==
    [ target_c |-> 0, target_temp_delta_c |-> 0, tol_c |-> 0, window_s |-> 0,
      poll_s |-> 0, initial_delay_s |-> 0, temp_offset |-> 0, tag |-> "" ]

\* The controller has been written no setpoint.  n counts the accepted writes
\* (up to 2), sp is the last accepted setpoint and prev the one before it,
\* at is the time of the last accepted write and gap the time between the
\* last two, tries counts the rejected writes since the last accepted one.
NoneApplied ==
    [ n |-> 0, sp |-> 0, prev |-> 0, gap |-> 0, at |-> 0, tries |-> 0 ]

\* The further executions of run_thermal_cycle that are followed.
MaxOtherRuns == 1

\* __init__: _telemetry_last_ts = 0.0, the epoch.  With the clock of the model
\* starting at 0 it is a time at least 2.5 s in the past; any such time is
\* kept as this value.
TelemetryOld == -5

\* __init__ followed by the first lines of run_thermal_cycle: the profile is
\* loaded, the PSU has not been commanded, no wait is running.
CycleInit ==
    /\ sc \in DOMAIN Scenarios
    /\ idx = 1
    /\ pc = "step_start"
    /\ now = 0
    /\ psu_output = FALSE
    /\ psu_voltage = 0
    /\ psu_current = 0
    /\ cyc_i = 0
    /\ path_i = 1
    /\ wp = NoWait
    /\ ret = ""
    /\ sp = 0
    /\ integ = 0
    /\ last_pid_ts = -1
    /\ missing_meas_count = 0
    /\ phase1_start = 0
    /\ phase1_window_values = <<>>
    /\ window_values = <<>>
    /\ end_required = 0
    /\ settle_start = 0
    /\ loop_end = 0
    /\ waitResult = "none"
    /\ pollKinds = {}
    /\ inBandRun = 0
    /\ lastViolation = -1
    /\ missingRun = 0
    /\ applied = NoneApplied
    /\ telemetry_last_ts = TelemetryOld
    /\ csv = <<>>
    /\ user_cb = IF Scenarios[sc].faults \cap {"live_view", "callback_raises"} # {}
                 THEN "attached" ELSE "none"
    /\ other_runs = 0
    /\ log = <<>>

\* The parts followed on their own, not started.
NoDocument == [kind |-> "none", items |-> << >>]

NotLoading == [at |-> "idle", steps |-> << >>, error |-> ""]

NoArgs ==
    [ exists |-> FALSE, steps |-> 0, profile_paths |-> "None",
      path |-> "None", stability_seconds |-> 0, fault |-> "none" ]

\* main has not been called.  pc is the position of main and of the runner
\* it calls; chamber counts the calls of set_chamber_state, setpoints those of
\* set_setpoint and tests those of run_and_process_tests; step is the index
\* of the current step; now, stable_start (-1: None) and samples (the
\* readings of the current wait, each with its time) belong to
\* _set_setpoint_and_wait; error is the exception on its way up and code
\* the value main returned (-1: none).
RunnerIdle ==
    [ pc |-> "idle", chamber |-> 0, setpoints |-> 0, tests |-> 0, step |-> 0,
      now |-> 0, stable_start |-> -1, samples |-> << >>, error |-> "",
      code |-> -1 ]

SideIdle ==
    /\ telemetry_file = <<>>
    /\ profile_document = NoDocument
    /\ profile_load = NotLoading
    /\ cli_args = NoArgs
    /\ runner = RunnerIdle

Init == CycleInit /\ SideIdle

\* A manager that runs no profile: the state after __init__, for the
\* specifications that follow one part of the program on its own.
CycleIdle == CycleInit /\ sc = 1

\* --------------------------------------------------------- step parameters

\* run_thermal_cycle, lines 937-949: the parameters read from the step.
target_c == step.temperature

target_temp_delta_c == step.target_temp_delta

offset_c == step.temp_controller_offset

tol_c == OrDefault(step.settlement_tolerance, 6)

window_s == OrDefault(step.settlement_window, 300)

poll_s == OrDefault(step.monitoring_interval, 3)

initial_delay_s == OrDefault(step.initial_delay, 60)

\* dwell_s with the default dwell_scale of 1.0: minutes to seconds.
dwell_s == step.total_time * 60

cycle_type == step.temp_cycle_type

\* _map_step_tests: the enabled test families, in dispatch order.
map_step_tests ==
    (IF step.pin_pout_functional THEN <<"pin_pout_functional">> ELSE <<>>)
    \o (IF step.sig_a_performance THEN <<"sig_a_performance">> ELSE <<>>)
    \o (IF step.na_performance THEN <<"na_performance">> ELSE <<>>)

\* ------------------------------------------------------------- instruments

\* _set_setpoint: the time it takes.  Without a controller it returns at once;
\* a controller that answers ends the read-back loop at its first read; with
\* one whose reads all fail the loop runs to its timeout of 30 s.
set_setpoint_time == IF Scen.controller = "dead" THEN 30 ELSE 0

\* The PSU output as it would be if every call switched it on.
power_output_always_on(voltage) == TRUE

\* The PSU output as it would be if a declared voltage of zero left it alone.
power_output_on_only(voltage) == voltage > 0 \/ psu_output

\* _apply_power_for_step: the PSU output after it, for the declared voltage.
power_output(voltage) == voltage > 0

\* temp_controller.set_setpoint: the write is accepted, or, where the scenario
\* has the controller reject writes, it may raise one of the exceptions that
\* _set_setpoint and _apply_sp_nudge catch.
write_outcomes ==
    IF "setpoint_write" \in Scen.faults THEN {TRUE, FALSE} ELSE {TRUE}

\* _set_setpoint: a write that raises skips the read-back loop.
setpoint_time(accepted) == IF accepted THEN set_setpoint_time ELSE 0

\* The writes seen by the controller after set_setpoint(v) at time t.
write_setpoint(v, t, accepted) ==
    IF Scen.controller = "absent" THEN applied
    ELSE IF accepted
    THEN [ n |-> Min(applied.n + 1, 2), sp |-> v, prev |-> applied.sp,
           gap |-> Min(t - applied.at, MaxSetpointGap), at |-> t,
           tries |-> 0 ]
    ELSE [applied EXCEPT !.tries = Min(@ + 1, 2)]

\* The same writes when the origin of the clock moves forward by shift.
rebased(a, shift) ==
    IF a.n = 0 THEN a
    ELSE [a EXCEPT !.at = Max(@ - shift, -MaxSetpointGap)]

\* _apply_power_for_step: the PSU voltage after it.
power_voltage(voltage) == IF voltage > 0 THEN voltage ELSE psu_voltage

\* _apply_power_for_step: the PSU current limit after it; set_current is
\* called only with a positive voltage and a positive current.
power_current(voltage, current) ==
    IF voltage > 0 /\ current > 0 THEN current ELSE psu_current

\* read_meas: the outcomes of one poll.  ok = FALSE is None: the probe gave no
\* number and the controller fallback gave none either.
read_meas ==
    { [ok |-> TRUE, v |-> wp.target_c + o] : o \in Scen.offsets }
    \cup (IF Scen.missing /\ Scen.controller # "ok"
          THEN { [ok |-> FALSE, v |-> 0] } ELSE {})

\* ---------------------------------------------------------------- telemetry

\* _maybe_log_telemetry as it would be without the comparison of line 851.
due_always(last, t) == TRUE

\* _maybe_log_telemetry, line 851: at time t (seconds) the row is written when
\* 2.5 s have passed since the last row the rate limiter let through.
due(last, t) == 2 * t - last >= 5

\* _maybe_log_telemetry: _telemetry_last_ts after a call at time t.
maybe_ts(last, t) == IF due(last, t) THEN 2 * t ELSE last

\* A loop that calls _maybe_log_telemetry without pause from time a until
\* time b (the busy-waits of a dwell or soak; the read-back loop of
\* _set_setpoint, which sleeps 0.5 s): whether it writes a row at all ...
loop_logged(last, a, b) == Max(2 * a, last + 5) < 2 * b

\* ... and _telemetry_last_ts after it: the first row is written as soon as
\* the rate limiter allows, the next ones 2.5 s apart.
loop_ts(last, a, b) ==
    LET first == Max(2 * a, last + 5)
    IN  IF first < 2 * b THEN first + 5 * ((2 * b - 1 - first) \div 5)
        ELSE last

\* _set_setpoint: _telemetry_last_ts after a write at time t.  Only the
\* read-back loop that finds no reading calls _maybe_log_telemetry.
setpoint_wait_ts(last, t, accepted) ==
    IF accepted /\ Scen.controller = "dead"
    THEN loop_ts(last, t, t + set_setpoint_time) ELSE last

\* _telemetry_last_ts when the origin of the clock moves forward by shift.
rebase_ts(last, shift) == Max(last - 2 * shift, TelemetryOld)

\* A row of the telemetry file: the step index and the phase.
Row(phase) == << idx, phase >>

\* _log_telemetry as every record would be written if it went through the
\* rate limiter.
log_telemetry_rate_limited(rows, phase) ==
    IF due(telemetry_last_ts, now) THEN Append(rows, Row(phase)) ELSE rows

\* _log_telemetry, lines 759-815, with a telemetry file that can be written:
\* one row is appended, whatever the time of the previous one.
log_telemetry(rows, phase) == Append(rows, Row(phase))

\* ------------------------------------------------------ stability of a window

\* Largest and smallest value of a non-empty window.
MaxVal(w) == CHOOSE x \in {w[i][2] : i \in DOMAIN w} :
                 \A y \in {w[i][2] : i \in DOMAIN w} : x >= y

MinVal(w) == CHOOSE x \in {w[i][2] : i \in DOMAIN w} :
                 \A y \in {w[i][2] : i \in DOMAIN w} : x <= y

\* _calculate_stability: span.
span(w) == IF Len(w) >= 2 THEN MaxVal(w) - MinVal(w) ELSE 0

\* _calculate_stability: coverage_s.
coverage_s(w) == IF Len(w) >= 2 THEN w[Len(w)][1] - w[1][1] ELSE 0

\* _calculate_stability: has_enough_time as it would be if the coverage of the
\* window were not looked at.
has_enough_time_unchecked(w, twice_min_time_s) == w # <<>>

\* _calculate_stability: has_enough_time, for twice the minimum time (the
\* phase-1 minimum is half a number of seconds).
has_enough_time(w, twice_min_time_s) ==
    w # <<>> /\ 2 * coverage_s(w) >= twice_min_time_s

\* The list comprehension that prunes a window: entries with ts >= cutoff,
\* the cutoff given in tenths of a second.
prune(w, cutoff10) == SelectSeq(w, LAMBDA e : 10 * e[1] >= cutoff10)

\* ---------------------------------------------------- _wait_until_stable

poll == Max(1, wp.poll_s)

min_pid_interval_s == Max(10, wp.poll_s * 2)

max_step_per_adjust_c == 1000

max_sp_offset_c == 10000

\* clamp of the integrator, in tenths of a degree times seconds.
integ_limit == 100

base_sp == (wp.target_c + wp.temp_offset) * 100

max_phase1_time_s == 30 * 60

phase1_window_s == Max(30, wp.window_s \div 4)

\* max(15.0, phase1_window_s * 0.5), doubled.
twice_min_stability_time == Max(30, phase1_window_s)

window_duration == Max(1, wp.window_s)

\* The phase-2 ceiling as it would be if it were twice as long.
settle_ceiling_doubled == 2 * Max(60 * 60, 2 * window_duration)

max_settle_time_s == Max(60 * 60, 2 * window_duration)

\* band_err <= target_temp_delta_c.
in_band(v) == Abs(v - wp.target_c) <= wp.target_temp_delta_c

\* Phase 1: span <= tol_c * stability_threshold (0.75).
is_stable(w) == 4 * span(w) <= 3 * wp.tol_c

\* Phase 2: span <= tol_c.
span_within_tol(w) == span(w) <= wp.tol_c

\* Phase 2: coverage_s >= window_duration.
has_full_coverage(w) == coverage_s(w) >= window_duration

\* Phase 2, the primary exit: full coverage and enough time.
stable_full(w) ==
    has_full_coverage(w) /\ has_enough_time(w, 2 * window_duration)

\* The fallback exit as it would be without the grace deadline.
near_full_without_deadline(w) == 100 * coverage_s(w) >= 95 * window_duration

\* Phase 2, the fallback exit: 95 % coverage once the grace deadline passed.
stable_near_full(w) ==
    100 * coverage_s(w) >= 95 * window_duration /\ now >= end_required

\* Phase 2: the condition under which a poll tests the two exits.
stable_candidate(w, v) == span_within_tol(w) /\ in_band(v)

\* The PID output for an error err (tenths) after dt_s seconds, in
\* thousandths: Kp * err + Ki * integ with the integrator clamped first, then
\* clamped to one step.
pid_integ(err, dt_s) == Clamp(-integ_limit, integ_limit, integ + err * dt_s)

pid_output(err, dt_s) ==
    Clamp(-max_step_per_adjust_c, max_step_per_adjust_c,
          10 * err + 2 * pid_integ(err, dt_s))

\* new_sp as it would be if the total deviation were not clamped.
new_sp_unclamped(output) == sp + output

\* new_sp: the total deviation from the base setpoint is clamped.
pid_new_sp(output) ==
    base_sp + Clamp(-max_sp_offset_c, max_sp_offset_c, (sp - base_sp) + output)

\* adjustment_settle_time: 60 s plus 120 s per degree, capped at half the PID
\* interval.
adjustment_settle_time(output) ==
    Min(Max(60, 60 + (Abs(output) * 120) \div 1000), min_pid_interval_s \div 2)

\* _apply_sp_nudge: the 5 s it sleeps after commanding a controller; a write
\* that raises skips the sleep.
nudge_time(accepted) ==
    IF Scen.controller = "absent" \/ ~accepted THEN 0 ELSE 5

\* History of the poll outcomes of this wait.
kind(m) == IF ~m.ok THEN "none"
           ELSE IF m.v = wp.target_c THEN "target" ELSE "other"

run_after(m) ==
    IF m.ok /\ in_band(m.v) THEN Min(inBandRun + 1, RampArrivalPolls) ELSE 0

missing_run_after(m) ==
    IF m.ok THEN 0 ELSE Min(missingRun + 1, MaxMissingRun)

\* The lines between the two loops: phase 2 starts with an empty window.
EnterPhase2 ==
    /\ window_values' = <<>>
    /\ end_required' = now + window_duration
    /\ settle_start' = now
    /\ pc' = "p2_poll"

\* A milestone of the current step.
Ev(e, a, path) == [ev |-> e, arg |-> a, path |-> path]

\* Lines 245-291 up to the initial delay: the setpoint is applied (target plus
\* offset), the PID state is created, the initial delay is computed.
WaitEnter ==
    /\ pc = "w_enter"
    /\ sp' = base_sp
    /\ integ' = 0
    /\ last_pid_ts' = -1
    /\ \E accepted \in write_outcomes :
        /\ applied' = rebased(write_setpoint(base_sp, now, accepted), now)
        /\ now' = setpoint_time(accepted)
        /\ telemetry_last_ts' =
               setpoint_wait_ts(rebase_ts(telemetry_last_ts, now), 0, accepted)
        /\ loop_end' = setpoint_time(accepted) + Max(0, wp.initial_delay_s)
    /\ missing_meas_count' = 0
    /\ phase1_start' = 0
    /\ phase1_window_values' = <<>>
    /\ window_values' = <<>>
    /\ end_required' = 0
    /\ settle_start' = 0
    /\ waitResult' = "running"
    /\ pollKinds' = {}
    /\ inBandRun' = 0
    /\ lastViolation' = -1
    /\ missingRun' = 0
    /\ log' = Append(log, Ev("wait", wp.tag, ""))
    /\ pc' = "w_delay"
    /\ UNCHANGED << sc, sideVars, uiVars, csv, idx, psuVars, cyc_i, path_i, wp, ret >>

\* Lines 284-298: one turn of the initial-delay loop, which sleeps
\* min(5, max(1, poll_s)); when the delay is over, phase 1 starts.
InitDelayTick ==
    /\ pc = "w_delay"
    /\ IF now < loop_end
       THEN /\ now' = now + Min(5, Max(1, wp.poll_s))
            /\ telemetry_last_ts' = maybe_ts(telemetry_last_ts, now)
            /\ UNCHANGED << pc, phase1_start >>
       ELSE /\ phase1_start' = now
            /\ pc' = "p1_poll"
            /\ now' = now
            /\ telemetry_last_ts' = telemetry_last_ts
    /\ UNCHANGED << sc, sideVars, uiVars, csv, idx, applied, psuVars, cyc_i, path_i, wp, ret, sp, integ,
                    last_pid_ts, missing_meas_count, phase1_window_values,
                    window_values, end_required, settle_start, loop_end,
                    waitResult, histVars, log >>

\* Lines 305-391: one turn of the phase-1 loop.
Phase1Poll ==
    /\ pc = "p1_poll"
    /\ \E m \in read_meas :
        LET w1 == IF m.ok
                  THEN prune(Append(phase1_window_values, <<now, m.v>>),
                             10 * (now - phase1_window_s))
                  ELSE phase1_window_values
            cnt == IF m.ok THEN missing_meas_count
                   ELSE missing_meas_count + 1
            timed_out == (now - phase1_start) > max_phase1_time_s
            leave == IF m.ok THEN in_band(m.v)
                     ELSE (simulation_mode /\ cnt >= 3) \/ timed_out
            adjust == /\ m.ok
                      /\ ~in_band(m.v)
                      /\ is_stable(w1)
                      /\ has_enough_time(w1, twice_min_stability_time)
                      /\ (last_pid_ts = -1
                          \/ (now - last_pid_ts) >= min_pid_interval_s)
            err == wp.target_c - m.v
            dt_s == IF last_pid_ts # -1 THEN now - last_pid_ts ELSE poll
            output == pid_output(err, dt_s)
        IN  /\ phase1_window_values' = w1
            /\ missing_meas_count' = cnt
            /\ pollKinds' = pollKinds \cup {kind(m)}
            /\ inBandRun' = run_after(m)
            /\ missingRun' = missing_run_after(m)
            /\ telemetry_last_ts' =
                   IF m.ok THEN maybe_ts(telemetry_last_ts, now)
                   ELSE telemetry_last_ts
            /\ IF leave \/ (m.ok /\ ~adjust /\ timed_out)
               THEN /\ EnterPhase2
                    /\ UNCHANGED << now, sp, integ, last_pid_ts, loop_end,
                                    applied >>
               ELSE IF adjust
               THEN /\ sp' = pid_new_sp(output)
                    /\ integ' = pid_integ(err, dt_s)
                    /\ last_pid_ts' = now
                    /\ \E accepted \in write_outcomes :
                        /\ applied' = write_setpoint(pid_new_sp(output), now,
                                                     accepted)
                        /\ now' = now + nudge_time(accepted)
                        /\ loop_end' = now + nudge_time(accepted)
                                       + adjustment_settle_time(output)
                    /\ pc' = "p1_settle"
                    /\ UNCHANGED << window_values, end_required, settle_start >>
               ELSE /\ now' = now + poll
                    /\ UNCHANGED << pc, sp, integ, last_pid_ts, loop_end,
                                    window_values, end_required, settle_start,
                                    applied >>
    /\ UNCHANGED << sc, sideVars, uiVars, csv, idx, psuVars, cyc_i, path_i, wp, ret, phase1_start,
                    waitResult, lastViolation, log >>

\* Lines 380-391: one turn of the loop that lets an adjustment settle, which
\* sleeps min(10, max(5, poll_s)); after it, the timeout check of the poll
\* that adjusted (its time is last_pid_ts) and the sleep of the phase-1 loop.
PidSettleTick ==
    /\ pc = "p1_settle"
    /\ IF now < loop_end
       THEN /\ now' = now + Min(10, Max(5, wp.poll_s))
            /\ telemetry_last_ts' = maybe_ts(telemetry_last_ts, now)
            /\ UNCHANGED << pc, window_values, end_required, settle_start >>
       ELSE IF (last_pid_ts - phase1_start) > max_phase1_time_s
       THEN /\ EnterPhase2
            /\ now' = now
            /\ telemetry_last_ts' = telemetry_last_ts
       ELSE /\ now' = now + poll
            /\ pc' = "p1_poll"
            /\ telemetry_last_ts' = telemetry_last_ts
            /\ UNCHANGED << window_values, end_required, settle_start >>
    /\ UNCHANGED << sc, sideVars, uiVars, csv, idx, applied, psuVars, cyc_i, path_i, wp, ret, sp, integ,
                    last_pid_ts, missing_meas_count, phase1_start,
                    phase1_window_values, loop_end, waitResult, histVars, log >>

\* The phase-2 loop as it would be if a poll sent the wait back to phase 1.
Phase2PollReverting ==
    /\ pc = "p2_poll"
    /\ pc' = "p1_poll"
    /\ now' = now + poll
    /\ UNCHANGED << sc, sideVars, uiVars, telVars, idx, applied, psuVars, cyc_i, path_i, waitVars,
                    loop_end, waitResult, histVars, log >>

\* Lines 401-469: one turn of the phase-2 loop.  The loop is followed for
\* MaxOverrunPolls polls past max_settle_time_s.
Phase2Poll ==
    /\ pc = "p2_poll"
    /\ (now - settle_start) <= max_settle_time_s + MaxOverrunPolls * poll
    /\ \E m \in read_meas :
        LET w2 == IF m.ok
                  THEN prune(Append(window_values, <<now, m.v>>),
                             10 * now - 11 * window_duration)
                  ELSE window_values
            cnt == IF m.ok THEN missing_meas_count
                   ELSE missing_meas_count + 1
            candidate == m.ok /\ stable_candidate(w2, m.v)
            result ==
                IF ~m.ok
                THEN IF simulation_mode /\ cnt >= 6 THEN "bypass"
                     ELSE IF (now - settle_start) > max_settle_time_s
                     THEN "timeout" ELSE "running"
                ELSE IF candidate /\ stable_full(w2) THEN "stable"
                ELSE IF candidate /\ stable_near_full(w2) THEN "stable"
                ELSE "running"
        IN  /\ window_values' = w2
            /\ missing_meas_count' = cnt
            /\ pollKinds' = pollKinds \cup {kind(m)}
            /\ inBandRun' = run_after(m)
            /\ missingRun' = missing_run_after(m)
            /\ telemetry_last_ts' =
                   IF m.ok THEN maybe_ts(telemetry_last_ts, now)
                   ELSE telemetry_last_ts
            /\ end_required' = IF m.ok /\ ~candidate
                               THEN now + window_duration ELSE end_required
            /\ lastViolation' = IF m.ok /\ ~candidate
                                THEN now ELSE lastViolation
            /\ waitResult' = result
            /\ IF result = "running"
               THEN now' = now + poll /\ pc' = pc
               ELSE now' = now /\ pc' = "w_ret"
    /\ UNCHANGED << sc, sideVars, uiVars, csv, idx, applied, psuVars, cyc_i, path_i, wp, ret, sp, integ,
                    last_pid_ts, phase1_start, phase1_window_values,
                    settle_start, loop_end, log >>

\* The return of _wait_until_stable: its locals are gone.
WaitReturn ==
    /\ pc = "w_ret"
    /\ pc' = ret
    /\ now' = 0
    /\ wp' = NoWait
    /\ ret' = ""
    /\ sp' = 0
    /\ integ' = 0
    /\ last_pid_ts' = -1
    /\ missing_meas_count' = 0
    /\ phase1_start' = 0
    /\ phase1_window_values' = <<>>
    /\ window_values' = <<>>
    /\ end_required' = 0
    /\ settle_start' = 0
    /\ loop_end' = 0
    /\ pollKinds' = {}
    /\ inBandRun' = 0
    /\ lastViolation' = -1
    /\ missingRun' = 0
    /\ applied' = rebased(applied, now)
    /\ telemetry_last_ts' = rebase_ts(telemetry_last_ts, now)
    /\ UNCHANGED << sc, sideVars, uiVars, csv, idx, psuVars, cyc_i, path_i, waitResult, log >>

\* -------------------------------------------------------- run_thermal_cycle

\* The arguments run_thermal_cycle passes to _wait_until_stable.
WaitArgs(target, band, offset, tag) ==
    [ target_c |-> target, target_temp_delta_c |-> band, tol_c |-> tol_c,
      window_s |-> window_s, poll_s |-> poll_s,
      initial_delay_s |-> initial_delay_s, temp_offset |-> offset,
      tag |-> tag ]

\* A call of _wait_until_stable that returns to position r.
CallWait(args, r) ==
    /\ wp' = args
    /\ ret' = r
    /\ pc' = "w_enter"

\* INT_CYCLE: the parameters read from the step (lines 1009-1021).
cycle_count == OrDefault(step.num_cycles, 1)

soak_s == step.soak_time_after_switch * 60

\* INT_CYCLE: the bias voltage of repetition i.
cycle_voltage(i) ==
    IF i % 2 = 0 THEN step.even_cycle_voltage ELSE step.odd_cycle_voltage

\* test_manager.paths.
paths == Scen.paths

\* The paths as they would be if the loop visited each of them twice.
paths_twice == IF paths = <<>> THEN <<"None", "None">> ELSE paths \o paths

\* _run_tests_for_step: "paths or [None]".
paths_or_none == IF paths = <<>> THEN <<"None">> ELSE paths

\* Lines 934-968: the step's parameters are read, the start record is
\* written, the PSU is set for the step.
StepStart ==
    /\ pc = "step_start"
    /\ log' = << Ev("start", cycle_type, "") >>
    /\ psu_output' = power_output(step.voltage)
    /\ psu_voltage' = power_voltage(step.voltage)
    /\ psu_current' = power_current(step.voltage, step.current)
    /\ now' = 0
    /\ applied' = rebased(applied, now)
    /\ telemetry_last_ts' = rebase_ts(telemetry_last_ts, now)
    /\ csv' = log_telemetry(csv, "start")
    /\ pc' = "set_sp"
    /\ UNCHANGED << sc, sideVars, uiVars, idx, cyc_i, path_i, waitVars, loop_end, waitResult,
                    histVars >>

\* Lines 970-1008: the step's setpoint is applied, then the step is handled
\* by its type.  RAMP, DWELL and SOAK call the settlement wait; INT_CYCLE
\* enters its loop; any other type has no branch.
StepDispatch ==
    /\ pc = "set_sp"
    /\ \E accepted \in write_outcomes :
        /\ applied' = write_setpoint((target_c + offset_c) * 100, now, accepted)
        /\ now' = now + setpoint_time(accepted)
        /\ telemetry_last_ts' =
               setpoint_wait_ts(telemetry_last_ts, now, accepted)
    /\ cyc_i' = 0
    /\ IF cycle_type = "RAMP"
       THEN CallWait(WaitArgs(target_c, OrDefault(step.target_temp_delta, tol_c),
                              offset_c, "TARGET"), "ramp_tail")
       ELSE IF cycle_type \in {"DWELL", "SOAK"}
       THEN CallWait(WaitArgs(target_c, target_temp_delta_c, offset_c,
                              "TARGET"), "tests")
       ELSE IF cycle_type = "INT_CYCLE"
       THEN pc' = "ic_high" /\ UNCHANGED << wp, ret >>
       ELSE pc' = "post" /\ UNCHANGED << wp, ret >>
    /\ UNCHANGED << sc, sideVars, uiVars, csv, idx, psuVars, path_i, sp, integ, last_pid_ts,
                    missing_meas_count, phase1_start, phase1_window_values,
                    window_values, end_required, settle_start, loop_end,
                    waitResult, histVars, log >>

\* Lines 978-987: after the wait of a RAMP, one sleep of max(1, poll_s).
RampTail ==
    /\ pc = "ramp_tail"
    /\ telemetry_last_ts' = maybe_ts(telemetry_last_ts, now)
    /\ csv' = IF due(telemetry_last_ts, now) THEN Append(csv, Row("ramp"))
              ELSE csv
    /\ now' = now + Max(1, poll_s)
    /\ log' = Append(log, Ev("ramp", "", ""))
    /\ pc' = "post"
    /\ UNCHANGED << sc, sideVars, uiVars, idx, applied, psuVars, cyc_i, path_i, waitVars, loop_end,
                    waitResult, histVars >>

\* _run_tests_for_step, lines 884-896: the families and the paths are read.
RunTestsForStep ==
    /\ pc = "tests"
    /\ log' = Append(log, Ev("tests", "", ""))
    /\ path_i' = 1
    /\ pc' = "test_path"
    /\ UNCHANGED << sc, sideVars, uiVars, telVars, idx, applied, now, psuVars, cyc_i, waitVars, loop_end,
                    waitResult, histVars >>

\* The milestones of dispatching the first n of the families on a path.
RECURSIVE Dispatched(_, _, _)
Dispatched(families, n, path) ==
    IF n = 0 THEN <<>>
    ELSE Dispatched(families, n - 1, path)
         \o << Ev("test", families[n], path) >>

\* _run_tests_for_step, lines 898-925: one turn of the loop over the paths.
\* The enabled families are dispatched in order; a family that raises one of
\* the caught exceptions ends the turn (raised = its position, 0 = none).
TestPath ==
    /\ pc = "test_path"
    /\ path_i <= Len(paths_or_none)
    /\ \E raised \in 0 .. Len(map_step_tests) :
        LET n == IF raised = 0 THEN Len(map_step_tests) ELSE raised
            path == paths_or_none[path_i]
        IN  log' = log \o Dispatched(map_step_tests, n, path)
                       \o (IF raised = 0 THEN <<>>
                           ELSE << Ev("tests_failed", map_step_tests[raised],
                                      path) >>)
    /\ csv' = csv \o << Row("testing"), Row("testing") >>
    /\ path_i' = path_i + 1
    /\ UNCHANGED << sc, sideVars, uiVars, telemetry_last_ts, idx, applied, pc, now, psuVars, cyc_i, waitVars, loop_end,
                    waitResult, histVars >>

\* Lines 995-1007: the dwell of a DWELL or SOAK step, a loop that runs until
\* dwell_s seconds have passed.
Dwell ==
    /\ pc = "test_path"
    /\ path_i > Len(paths_or_none)
    /\ IF dwell_s > 0
       THEN /\ log' = Append(log, Ev("dwell", "", ""))
            /\ now' = now + dwell_s
            /\ telemetry_last_ts' =
                   loop_ts(telemetry_last_ts, now, now + dwell_s)
            /\ csv' = IF loop_logged(telemetry_last_ts, now, now + dwell_s)
                      THEN Append(csv, Row("dwell")) ELSE csv
       ELSE UNCHANGED << log, now, telVars >>
    /\ path_i' = 1
    /\ pc' = "post"
    /\ UNCHANGED << sc, sideVars, uiVars, idx, applied, psuVars, cyc_i, waitVars, loop_end, waitResult,
                    histVars >>

\* Lines 1023-1031: a repetition of INT_CYCLE starts.  The bias voltage of
\* the repetition is applied, the HIGH setpoint is applied and the wait at
\* the HIGH target is called; after the last repetition the loop is left.
IntCycleHigh ==
    /\ pc = "ic_high"
    /\ IF cyc_i < cycle_count
       THEN /\ psu_output' = power_output(cycle_voltage(cyc_i))
            /\ psu_voltage' = power_voltage(cycle_voltage(cyc_i))
            /\ psu_current' = power_current(cycle_voltage(cyc_i), step.current)
            /\ \E accepted \in write_outcomes :
                /\ applied' = write_setpoint(
                                  (step.high_temp + step.high_temp_offset) * 100,
                                  now, accepted)
                /\ now' = now + setpoint_time(accepted)
                /\ telemetry_last_ts' =
                       setpoint_wait_ts(telemetry_last_ts, now, accepted)
            /\ CallWait(WaitArgs(step.high_temp, target_temp_delta_c,
                                 step.high_temp_offset, "HIGH"), "ic_high_roll")
       ELSE /\ pc' = "post"
            /\ UNCHANGED << psuVars, now, wp, ret, applied,
                            telemetry_last_ts >>
    /\ path_i' = 1
    /\ UNCHANGED << sc, sideVars, uiVars, csv, idx, cyc_i, sp, integ, last_pid_ts,
                    missing_meas_count, phase1_start, phase1_window_values,
                    window_values, end_required, settle_start, loop_end,
                    waitResult, histVars, log >>

\* Lines 1032-1033 and 1060-1061: one turn of a loop over the paths, a rolling
\* test pass on one path.
RollingPath ==
    /\ pc \in {"ic_high_roll", "ic_low_roll"}
    /\ path_i <= Len(paths)
    /\ log' = Append(log, Ev("rolling",
                             IF pc = "ic_high_roll" THEN "HIGH" ELSE "LOW",
                             paths[path_i]))
    /\ path_i' = path_i + 1
    /\ UNCHANGED << sc, sideVars, uiVars, telVars, idx, applied, pc, now, psuVars, cyc_i, waitVars, loop_end,
                    waitResult, histVars >>

\* Lines 1036-1053: the soak at HIGH, the PSU switched off, the LOW setpoint
\* applied and the wait at the LOW target called.
IntCycleLow ==
    /\ pc = "ic_high_roll"
    /\ path_i > Len(paths)
    /\ log' = Append(log, Ev("soak", "HIGH", ""))
    /\ psu_output' = power_output(0)
    /\ psu_voltage' = power_voltage(0)
    /\ psu_current' = power_current(0, 0)
    /\ \E accepted \in write_outcomes :
        /\ applied' = write_setpoint(
                          (step.low_temp + step.low_temp_offset) * 100,
                          now + soak_s, accepted)
        /\ now' = now + soak_s + setpoint_time(accepted)
        /\ telemetry_last_ts' =
               setpoint_wait_ts(loop_ts(telemetry_last_ts, now, now + soak_s),
                                now + soak_s, accepted)
    /\ csv' = IF loop_logged(telemetry_last_ts, now, now + soak_s)
              THEN Append(csv, Row("soak")) ELSE csv
    /\ CallWait(WaitArgs(step.low_temp, target_temp_delta_c,
                         step.low_temp_offset, "LOW"), "ic_low_power")
    /\ path_i' = 1
    /\ UNCHANGED << sc, sideVars, uiVars, idx, cyc_i, sp, integ, last_pid_ts,
                    missing_meas_count, phase1_start, phase1_window_values,
                    window_values, end_required, settle_start, loop_end,
                    waitResult, histVars >>

\* Lines 1054-1057: after the wait at LOW the bias voltage is applied again.
IntCycleLowPower ==
    /\ pc = "ic_low_power"
    /\ psu_output' = power_output(cycle_voltage(cyc_i))
    /\ psu_voltage' = power_voltage(cycle_voltage(cyc_i))
    /\ psu_current' = power_current(cycle_voltage(cyc_i), step.current)
    /\ path_i' = 1
    /\ pc' = "ic_low_roll"
    /\ UNCHANGED << sc, sideVars, uiVars, telVars, idx, applied, now, cyc_i, waitVars, loop_end, waitResult,
                    histVars, log >>

\* Lines 1063-1074: the soak at LOW ends the repetition.
IntCycleNext ==
    /\ pc = "ic_low_roll"
    /\ path_i > Len(paths)
    /\ log' = Append(log, Ev("soak", "LOW", ""))
    /\ now' = now + soak_s
    /\ telemetry_last_ts' = loop_ts(telemetry_last_ts, now, now + soak_s)
    /\ csv' = IF loop_logged(telemetry_last_ts, now, now + soak_s)
              THEN Append(csv, Row("soak")) ELSE csv
    /\ cyc_i' = cyc_i + 1
    /\ path_i' = 1
    /\ pc' = "ic_high"
    /\ UNCHANGED << sc, sideVars, uiVars, idx, applied, psuVars, waitVars, loop_end, waitResult,
                    histVars >>

\* _get_pid_measurement, lines 194-204, called by read_meas at a poll: the
\* probe's measure_temp raises an exception that is none of RuntimeError,
\* OSError, ValueError.  No handler between the probe and the caller of
\* run_thermal_cycle catches it.
ProbeRaises ==
    /\ pc \in {"p1_poll", "p2_poll"}
    /\ "probe_raises" \in Scen.faults
    /\ log' = Append(log, Ev("raised", "probe", ""))
    /\ pc' = "raised"
    /\ UNCHANGED << sc, sideVars, uiVars, telVars, idx, applied, now, psuVars, cyc_i, path_i, waitVars,
                    loop_end, waitResult, histVars >>

\* _run_tests_for_step, lines 898-925: a family raises an exception that is
\* none of RuntimeError, OSError, ValueError, TypeError.  The families before
\* it on the path have been dispatched; the exception leaves the loop,
\* _run_tests_for_step and run_thermal_cycle.
TestRaises ==
    /\ pc = "test_path"
    /\ path_i <= Len(paths_or_none)
    /\ "test_raises" \in Scen.faults
    /\ \E raised \in 1 .. Len(map_step_tests) :
        LET path == paths_or_none[path_i]
        IN  log' = log \o Dispatched(map_step_tests, raised, path)
                       \o << Ev("raised", map_step_tests[raised], path) >>
    /\ csv' = csv \o << Row("testing"), Row("testing") >>
    /\ pc' = "raised"
    /\ UNCHANGED << sc, sideVars, uiVars, telemetry_last_ts, idx, applied, now, psuVars, cyc_i, path_i, waitVars,
                    loop_end, waitResult, histVars >>

\* Lines 1032-1033 and 1060-1061: a rolling test pass raises.  The calls are
\* in no try block: the exception leaves run_thermal_cycle.
RollingRaises ==
    /\ pc \in {"ic_high_roll", "ic_low_roll"}
    /\ path_i <= Len(paths)
    /\ "rolling_raises" \in Scen.faults
    /\ log' = Append(log, Ev("raised", "rolling", paths[path_i]))
    /\ pc' = "raised"
    /\ UNCHANGED << sc, sideVars, uiVars, telVars, idx, applied, now, psuVars, cyc_i, path_i, waitVars,
                    loop_end, waitResult, histVars >>

\* The user interrupts the run while _wait_until_stable sleeps or polls:
\* KeyboardInterrupt is raised in the control thread.  It is no Exception, so
\* no handler of _wait_until_stable catches it, and run_thermal_cycle has
\* neither an except nor a finally clause around its steps: the exception
\* leaves run_thermal_cycle with the instruments as they are.
Interrupt ==
    /\ pc \in {"w_delay", "p1_poll", "p1_settle", "p2_poll"}
    /\ "user_interrupt" \in Scen.faults
    /\ log' = Append(log, Ev("interrupted", "", ""))
    /\ pc' = "interrupted"
    /\ UNCHANGED << sc, sideVars, uiVars, telVars, idx, applied, now, psuVars, cyc_i, path_i, waitVars,
                    loop_end, waitResult, histVars >>

\* The end of a step as it would be if the power_off_after flag were not read.
StepCompleteKeepingPower ==
    /\ pc = "post"
    /\ log' = Append(log, Ev("step_complete", "", ""))
    /\ csv' = log_telemetry(csv, "step_complete")
    /\ pc' = IF user_cb # "none" THEN "sc_callback" ELSE "step_end"
    /\ UNCHANGED << sc, sideVars, uiVars, telemetry_last_ts, idx, applied, now, psuVars, cyc_i, path_i, waitVars,
                    loop_end, waitResult, histVars >>

\* Lines 1076-1087: the optional power-off, then the step_complete record.
StepComplete ==
    /\ pc = "post"
    /\ psu_output' = IF step.power_off_after THEN FALSE ELSE psu_output
    /\ log' = log \o (IF step.power_off_after
                      THEN << Ev("power_off", "", "") >> ELSE <<>>)
                  \o << Ev("step_complete", "", "") >>
    /\ csv' = log_telemetry(csv, "step_complete")
    /\ pc' = IF user_cb # "none" THEN "sc_callback" ELSE "step_end"
    /\ UNCHANGED << sc, sideVars, uiVars, telemetry_last_ts, idx, applied, now, psu_voltage, psu_current, cyc_i,
                    path_i, waitVars,
                    loop_end, waitResult, histVars >>

\* Line 934: the for loop takes the next step, or run_thermal_cycle returns.
NextStep ==
    /\ pc = "step_end"
    /\ IF idx < Len(all_steps)
       THEN idx' = idx + 1 /\ pc' = "step_start"
       ELSE idx' = idx /\ pc' = "done"
    /\ UNCHANGED << sc, sideVars, uiVars, telVars, applied, now, psuVars, cyc_i, path_i, waitVars,
                    loop_end,
                    waitResult, histVars, log >>

\* The call of the callback as it would be without the handler of line 835.
StepCompleteCallbackUnguarded ==
    /\ pc = "sc_callback"
    /\ log' = Append(log, Ev("callback",
                             IF user_cb = "none" THEN "detached"
                             ELSE "delivered", ""))
    /\ pc' = IF user_cb = "none" THEN "raised" ELSE "step_end"
    /\ UNCHANGED << sc, sideVars, uiVars, telVars, idx, applied, now, psuVars, cyc_i,
                    path_i, waitVars, loop_end, waitResult, histVars >>

\* _log_telemetry, lines 816-837, for the step_complete record: the row has
\* been written and the callback was found attached; the payload is built and
\* self._user_telemetry_callback is read again and called.  Calling None
\* raises TypeError, which the inner handler (line 835) catches.
StepCompleteCallback ==
    /\ pc = "sc_callback"
    /\ log' = Append(log, Ev("callback",
                             IF user_cb = "none" THEN "detached"
                             ELSE "delivered", ""))
    /\ pc' = "step_end"
    /\ UNCHANGED << sc, sideVars, uiVars, telVars, idx, applied, now, psuVars, cyc_i,
                    path_i, waitVars, loop_end, waitResult, histVars >>

\* _log_telemetry, lines 834-840: the callback raises an exception that is
\* none of RuntimeError, ValueError, TypeError, OSError.  Neither the inner
\* handler (line 835) nor the outer one (line 838) catches it, and
\* run_thermal_cycle has no handler: the run ends.
CallbackRaises ==
    /\ pc = "sc_callback"
    /\ user_cb = "attached"
    /\ "callback_raises" \in Scen.faults
    /\ log' = Append(log, Ev("raised", "callback", ""))
    /\ pc' = "raised"
    /\ UNCHANGED << sc, sideVars, uiVars, telVars, idx, applied, now, psuVars, cyc_i,
                    path_i, waitVars, loop_end, waitResult, histVars >>

\* Lines 1076-1087 with _log_telemetry, lines 784-788: a live read of the
\* record (the PSU's get_voltage, the thermocouple's measure_temp) raises an
\* exception that is none of OSError, ValueError, TypeError.  The snapshot
\* helpers catch (OSError, ValueError) and _log_telemetry catches (OSError,
\* ValueError, TypeError): the exception leaves _log_telemetry before the row
\* is written, and run_thermal_cycle with it.
TelemetryRaises ==
    /\ pc = "post"
    /\ "telemetry_raises" \in Scen.faults
    /\ psu_output' = IF step.power_off_after THEN FALSE ELSE psu_output
    /\ log' = log \o (IF step.power_off_after
                      THEN << Ev("power_off", "", "") >> ELSE <<>>)
                  \o << Ev("raised", "telemetry", "") >>
    /\ pc' = "raised"
    /\ UNCHANGED << sc, sideVars, uiVars, telVars, idx, applied, now, psu_voltage,
                    psu_current, cyc_i, path_i, waitVars, loop_end,
                    waitResult, histVars >>

\* set_telemetry_callback, lines 536-540, called from a thread other than
\* the control thread: a callback is attached or replaced, or None detaches.
SetTelemetryCallback ==
    /\ "live_view" \in Scen.faults
    /\ \E callback \in {"none", "attached"} :
        /\ callback # user_cb
        /\ user_cb' = callback
    /\ UNCHANGED << sc, sideVars, other_runs, telVars, idx, pc, applied, now, psuVars,
                    cyc_i, path_i, waitVars, loop_end, waitResult, histVars,
                    log >>

\* LiveView.choose_and_start, ui/live_view.py lines 98-104, with a profile
\* chosen while a run started by an earlier click is executing: a new
\* thread is started on manager.run_thermal_cycle.  Nothing in
\* choose_and_start or at the head of run_thermal_cycle looks for a running
\* execution.  The further executions are counted; this model follows the
\* steps of the first one.
ChooseAndStart ==
    /\ "live_view" \in Scen.faults
    /\ pc \notin {"done", "raised", "interrupted"}
    /\ other_runs < MaxOtherRuns
    /\ other_runs' = other_runs + 1
    /\ UNCHANGED << sc, sideVars, user_cb, telVars, idx, pc, applied, now, psuVars,
                    cyc_i, path_i, waitVars, loop_end, waitResult, histVars,
                    log >>

\* run_thermal_cycle returns in one of the further threads.
OtherRunEnds ==
    /\ other_runs > 0
    /\ other_runs' = other_runs - 1
    /\ UNCHANGED << sc, sideVars, user_cb, telVars, idx, pc, applied, now, psuVars,
                    cyc_i, path_i, waitVars, loop_end, waitResult, histVars,
                    log >>

Next ==
    \/ StepStart
    \/ StepDispatch
    \/ WaitEnter
    \/ InitDelayTick
    \/ Phase1Poll
    \/ PidSettleTick
    \/ Phase2Poll
    \/ WaitReturn
    \/ RampTail
    \/ RunTestsForStep
    \/ TestPath
    \/ Dwell
    \/ IntCycleHigh
    \/ RollingPath
    \/ IntCycleLow
    \/ IntCycleLowPower
    \/ IntCycleNext
    \/ StepComplete
    \/ NextStep
    \/ ProbeRaises
    \/ TestRaises
    \/ RollingRaises
    \/ Interrupt
    \/ StepCompleteCallback
    \/ CallbackRaises
    \/ TelemetryRaises
    \/ SetTelemetryCallback
    \/ ChooseAndStart
    \/ OtherRunEnds

Spec == Init /\ [][Next]_vars

\* The control thread keeps running: whenever it can take a step it does.
FairSpec == Spec /\ WF_vars(Next)

\* ------------------------------------------------- the telemetry file's rows

\* The longest text followed for a free-text field.
MaxTextLen == 2

\* The rows followed after the header.
MaxRows == 1

\* A text is a sequence of characters; of the characters only the comma
\* matters, every other one is "a".
Texts == UNION { [1 .. n -> {"a", ","}] : n \in 0 .. MaxTextLen }

\* None.
None == << "None" >>

\* A value rendered by a numeric format (f"{x:.3f}", str(int(x)), isoformat)
\* or by str(bool(x)): digits and letters, no comma.
Rendered == << "a" >>

\* An unavailable value: the empty field.
Empty == << >>

\* str(x) of a value that may be None: lines 809-812 and 693-697.
str_or_empty(x) == IF x = None THEN Empty ELSE x

\* ",".join(map(str, line)), lines 815 and 699.
RECURSIVE join(_)
join(line) ==
    IF Len(line) = 0 THEN << >>
    ELSE IF Len(line) = 1 THEN line[1]
    ELSE line[1] \o << "," >> \o join(Tail(line))

\* The columns a reader of the file finds in a line: one more than its commas.
columns(text) == 1 + Cardinality({ i \in DOMAIN text : text[i] = "," })

\* A numeric field: rendered when the value is a number, empty otherwise.
number_or_empty(available) == IF available THEN Rendered ELSE Empty

\* Lines 107-111: the header written when the file is created, 22 names.
header ==
    join([ i \in 1 .. 22 |-> Rendered ])

\* Lines 789-813: the row of _log_telemetry.  name is the step's step_name,
\* fault_status and date_string come from the DAQ snapshot (None: no DAQ or
\* a failed read), live tells whether the live reads returned numbers.
log_telemetry_line(name, fault_status, date_string, live) ==
    << Rendered,                       \* timestamp
       Rendered,                       \* step_index
       name,                           \* step_name
       Rendered,                       \* cycle_type
       Rendered,                       \* phase
       Rendered,                       \* target_c
       number_or_empty(live),          \* setpoint_c
       number_or_empty(live),          \* actual_temp_c
       number_or_empty(live),          \* psu_voltage
       number_or_empty(live),          \* psu_current
       number_or_empty(live),          \* psu_output
       number_or_empty(live),          \* tc1_temp
       number_or_empty(live),          \* tc2_temp
       Rendered,                       \* tests_pin_pout_functional
       Rendered,                       \* tests_sig_a_performance
       Rendered,                       \* tests_na_performance
       number_or_empty(fault_status # None),   \* rf_on_off
       str_or_empty(fault_status),     \* fault_status
       number_or_empty(fault_status # None),   \* bandpath
       number_or_empty(fault_status # None),   \* gain_value
       str_or_empty(date_string),      \* date_string
       number_or_empty(fault_status # None) >> \* temp_value

\* Lines 674-697: the row of _log_external_telemetry.  name is the payload's
\* step_name or, when that is empty, the current step's.
log_external_telemetry_line(name, fault_status, date_string, live) ==
    << Rendered,
       Rendered,
       name,
       Rendered,
       Rendered,
       Rendered,
       number_or_empty(live),
       number_or_empty(live),
       number_or_empty(live),
       number_or_empty(live),
       number_or_empty(live),
       number_or_empty(live),
       number_or_empty(live),
       Empty,
       Empty,
       Empty,
       number_or_empty(fault_status # None),
       str_or_empty(fault_status),
       number_or_empty(fault_status # None),
       number_or_empty(fault_status # None),
       str_or_empty(date_string),
       number_or_empty(fault_status # None) >>

\* Lines 99-115: __init__ has created the file with its header.
RowInit ==
    /\ CycleIdle
    /\ telemetry_file = << header >>
    /\ profile_document = NoDocument
    /\ profile_load = NotLoading
    /\ cli_args = NoArgs
    /\ runner = RunnerIdle

\* _log_telemetry, lines 759-815, for one record.
LogTelemetry ==
    /\ Len(telemetry_file) <= MaxRows
    /\ \E name \in Texts, fault_status \in Texts \cup {None},
          date_string \in {None, << "a" >>, << "a", ",", "a" >>},
          live \in BOOLEAN :
        telemetry_file' =
            Append(telemetry_file,
                   join(log_telemetry_line(name, fault_status, date_string,
                                           live)))
    /\ UNCHANGED << cycleVars, profile_document, profile_load, cli_args, runner >>

\* _log_external_telemetry, lines 595-701, for one payload.
LogExternalTelemetry ==
    /\ Len(telemetry_file) <= MaxRows
    /\ \E name \in Texts, fault_status \in Texts \cup {None},
          date_string \in {None, << "a" >>, << "a", ",", "a" >>},
          live \in BOOLEAN :
        telemetry_file' =
            Append(telemetry_file,
                   join(log_external_telemetry_line(name, fault_status,
                                                    date_string, live)))
    /\ UNCHANGED << cycleVars, profile_document, profile_load, cli_args, runner >>

RowNext ==
    \/ LogTelemetry
    \/ LogExternalTelemetry

RowSpec == RowInit /\ [][RowNext]_vars

\* ------------------------------------------------------- loading a profile

\* The longest list of entries followed in a profile document.
MaxDocLen == 2

\* The fields the specification requires of a step.
RequiredFields == {"step_name", "temperature", "temp_cycle_type"}

\* A value that is no JSON object: a number, a string, a list.
NotAnObject == {"not an object"}

\* An entry of a document: a JSON object, given by the required fields it
\* has, or a value that is no object.
Entries == {NotAnObject} \cup SUBSET RequiredFields

\* A profile document: text that is no JSON; a JSON number or null; a JSON
\* object, given by its keys; a JSON list, given by its entries.
Documents ==
    { [kind |-> "invalid", items |-> << >>],
      [kind |-> "scalar", items |-> << >>],
      [kind |-> "object", items |-> << >>],
      [kind |-> "object", items |-> << NotAnObject >>] }
    \cup { [kind |-> "list", items |-> items] :
              items \in UNION { [1 .. n -> Entries] : n \in 0 .. MaxDocLen } }

\* create_temp_step(**step), lines 252-266, with BaseTempStep.__init__, lines
\* 9-19: a value that is no mapping cannot be unpacked, step_name is the one
\* parameter without a default.
creatable(entry) == entry # NotAnObject /\ "step_name" \in entry

\* The keyword arguments of an entry: the fields it has, the others at the
\* defaults of BaseTempStep.__init__ (temperature 0, temp_cycle_type "").
step_data(entry) ==
    [BaseTempStep EXCEPT
        !.step_name = "a",
        !.temperature = IF "temperature" \in entry THEN 250 ELSE @,
        !.temp_cycle_type = IF "temp_cycle_type" \in entry THEN "DWELL"
                            ELSE @]

\* parse_json_profile, lines 163-170: json.loads fails with JSONDecodeError,
\* which is caught and answered with the empty list; a number or null is not
\* iterable; a list is iterated over its entries and an object over its keys.
parse_json_profile(document) ==
    IF document.kind = "invalid"
    THEN [at |-> "loaded", steps |-> << >>, error |-> ""]
    ELSE IF document.kind = "scalar"
    THEN [at |-> "raised", steps |-> << >>, error |-> "TypeError"]
    ELSE IF \E i \in DOMAIN document.items : ~creatable(document.items[i])
    THEN [at |-> "raised", steps |-> << >>, error |-> "TypeError"]
    ELSE [at |-> "loaded",
          steps |-> [ i \in DOMAIN document.items |->
                        create_temp_step(step_data(document.items[i])) ],
          error |-> ""]

\* A profile file of some content is about to be loaded.
LoadInit ==
    /\ CycleIdle
    /\ telemetry_file = <<>>
    /\ profile_document \in Documents
    /\ profile_load = [at |-> "start", steps |-> << >>, error |-> ""]
    /\ cli_args = NoArgs
    /\ runner = RunnerIdle

\* TempProfileManager.__init__, lines 154-161, called at line 929.
TempProfileManagerInit ==
    /\ profile_load.at = "start"
    /\ profile_load' = parse_json_profile(profile_document)
    /\ UNCHANGED << cycleVars, telemetry_file, profile_document, cli_args,
                    runner >>

\* run_thermal_cycle, lines 930-934, and its for loop over the steps loaded:
\* each is executed; with no step the method returns.
RunLoadedProfile ==
    /\ profile_load.at = "loaded"
    /\ profile_load' = [profile_load EXCEPT !.at = "completed"]
    /\ UNCHANGED << cycleVars, telemetry_file, profile_document, cli_args,
                    runner >>

LoadNext ==
    \/ TempProfileManagerInit
    \/ RunLoadedProfile

LoadSpec == LoadInit /\ [][LoadNext]_vars

\* ------------------------------------------ the command line and its runner

\* The steps of a runner profile.
MaxRunnerSteps == 2

\* The polls of one _set_setpoint_and_wait that are followed.
MaxRunnerPolls == 4

\* LynxThermalCycleRunner.__init__: poll_interval_seconds, 5.0 by default.
poll_interval == 5

\* What main is given.  exists: os.path.exists(args.profile); steps: the
\* number of entries of the profile's "steps"; profile_paths: the profile's
\* "paths" (None: absent; a value that is no list; the empty list; a list of
\* one name); path: --path (None: not given; a list of two names; one name,
\* for a caller of run_profile other than main); stability_seconds:
\* --stability; fault: what the run meets (the chamber refusing to switch on
\* with OSError, the user's interrupt during a wait, or nothing).
Args ==
    [ exists : BOOLEAN,
      steps : 0 .. MaxRunnerSteps,
      profile_paths : {"None", "notalist", "empty", "list"},
      path : {"None", "list", "str"},
      stability_seconds : {0, 10},
      fault : {"none", "chamber_oserror", "interrupt"} ]

\* run_profile, lines 51-56: the checks of the two sources of paths as they
\* would be if they were left out.
paths_unchecked(profile_paths, path) == ""

\* run_profile, lines 51-56: the exception raised over the sources of paths.
paths_error(profile_paths, path) ==
    IF profile_paths = "notalist" THEN "TypeError"
    ELSE IF profile_paths = "None" /\ path = "None" THEN "ValueError"
    ELSE ""

\* run_profile, lines 58-64: the number of paths that are run.
paths_count(profile_paths, path) ==
    IF profile_paths = "list" THEN 1
    ELSE IF profile_paths = "empty" THEN 0
    ELSE IF path = "list" THEN 2
    ELSE IF path = "str" THEN 1
    ELSE 0

\* _set_setpoint_and_wait: stable_start as it would be if a reading outside
\* the tolerance left it alone.
stable_start_kept(reading, stable_start, t) ==
    IF reading = "in" /\ stable_start = -1 THEN t ELSE stable_start

\* _set_setpoint_and_wait, lines 191-199: stable_start after a reading.
stable_start_after(reading, stable_start, t) ==
    IF reading = "in"
    THEN IF stable_start = -1 THEN t ELSE stable_start
    ELSE -1

\* main is called.
RunnerInit ==
    /\ CycleIdle
    /\ telemetry_file = <<>>
    /\ profile_document = NoDocument
    /\ profile_load = NotLoading
    /\ cli_args \in Args
    /\ runner = [RunnerIdle EXCEPT !.pc = "main"]

\* main, lines 36-61: a profile path that does not exist ends main with 2.
Main ==
    /\ runner.pc = "main"
    /\ runner' = IF cli_args.exists
                 THEN [runner EXCEPT !.pc = "run_profile"]
                 ELSE [runner EXCEPT !.pc = "exited", !.code = 2]
    /\ UNCHANGED << cycleVars, telemetry_file, profile_document,
                    profile_load, cli_args >>

\* run_profile, lines 40-79: no steps, return; the sources of paths; the
\* chamber is switched on, an exception of set_chamber_state raised again.
RunProfile ==
    /\ runner.pc = "run_profile"
    /\ runner' =
          IF cli_args.steps = 0
          THEN [runner EXCEPT !.pc = "returned"]
          ELSE IF paths_error(cli_args.profile_paths, cli_args.path) # ""
          THEN [runner EXCEPT
                   !.pc = "raised",
                   !.error = paths_error(cli_args.profile_paths,
                                         cli_args.path)]
          ELSE IF cli_args.fault = "chamber_oserror"
          THEN [runner EXCEPT !.chamber = @ + 1, !.pc = "raised",
                              !.error = "OSError"]
          ELSE [runner EXCEPT !.chamber = @ + 1, !.pc = "set_setpoint",
                              !.step = 1]
    /\ UNCHANGED << cycleVars, telemetry_file, profile_document,
                    profile_load, cli_args >>

\* _set_setpoint_and_wait, lines 164-171: the setpoint is written.
SetSetpointAndWait ==
    /\ runner.pc = "set_setpoint"
    /\ runner' = [runner EXCEPT !.setpoints = @ + 1, !.stable_start = -1,
                                !.samples = << >>, !.pc = "poll"]
    /\ UNCHANGED << cycleVars, telemetry_file, profile_document,
                    profile_load, cli_args >>

\* _set_setpoint_and_wait, lines 172-200: one turn of the loop.  The reading
\* is within the tolerance, outside it, or failed (None).
RunnerPoll ==
    /\ runner.pc = "poll"
    /\ Len(runner.samples) < MaxRunnerPolls
    /\ \E reading \in {"in", "out", "fail"} :
        LET t == runner.now
            taken == Append(runner.samples, << t, reading >>)
            start == stable_start_after(reading, runner.stable_start, t)
        IN  runner' =
              IF reading = "fail"
              THEN [runner EXCEPT !.samples = taken,
                                  !.now = t + poll_interval]
              ELSE IF reading = "in"
                      /\ t - start >= cli_args.stability_seconds
              THEN [runner EXCEPT !.samples = taken, !.stable_start = start,
                                  !.pc = "plateau"]
              ELSE [runner EXCEPT !.samples = taken, !.stable_start = start,
                                  !.now = t + poll_interval]
    /\ UNCHANGED << cycleVars, telemetry_file, profile_document,
                    profile_load, cli_args >>

\* The user interrupts the run while _set_setpoint_and_wait sleeps.
RunnerInterrupt ==
    /\ runner.pc = "poll"
    /\ cli_args.fault = "interrupt"
    /\ runner' = [runner EXCEPT !.pc = "raised",
                                !.error = "KeyboardInterrupt"]
    /\ UNCHANGED << cycleVars, telemetry_file, profile_document,
                    profile_load, cli_args >>

\* run_profile, lines 105-125: the tests of the plateau, one call per path,
\* then the next step or the return.
RunnerPlateau ==
    /\ runner.pc = "plateau"
    /\ runner' =
          [runner EXCEPT
              !.tests = @ + paths_count(cli_args.profile_paths, cli_args.path),
              !.step = IF @ < cli_args.steps THEN @ + 1 ELSE @,
              !.pc = IF runner.step < cli_args.steps THEN "set_setpoint"
                     ELSE "returned"]
    /\ UNCHANGED << cycleVars, telemetry_file, profile_document,
                    profile_load, cli_args >>

\* main, lines 63-80: run_profile has returned or raised.  The handlers are
\* KeyboardInterrupt and (OSError, RuntimeError, ValueError); any other
\* exception leaves main.
MainReturn ==
    /\ runner.pc \in {"returned", "raised"}
    /\ runner' =
          IF runner.pc = "returned"
          THEN [runner EXCEPT !.pc = "exited", !.code = 0]
          ELSE IF runner.error = "KeyboardInterrupt"
          THEN [runner EXCEPT !.pc = "exited", !.code = 130]
          ELSE IF runner.error \in {"OSError", "RuntimeError", "ValueError"}
          THEN [runner EXCEPT !.pc = "exited", !.code = 1]
          ELSE [runner EXCEPT !.pc = "propagated"]
    /\ UNCHANGED << cycleVars, telemetry_file, profile_document,
                    profile_load, cli_args >>

RunnerNext ==
    \/ Main
    \/ RunProfile
    \/ SetSetpointAndWait
    \/ RunnerPoll
    \/ RunnerInterrupt
    \/ RunnerPlateau
    \/ MainReturn

RunnerSpec == RunnerInit /\ [][RunnerNext]_vars

\* ------------------------------------------------------------------ claims

\* The values of a window, its span and its coverage, as the specification
\* defines them.
WindowValues(w) == {w[i][2] : i \in DOMAIN w}

WindowSpan(w) ==
    IF w = <<>> THEN 0
    ELSE LET vs == WindowValues(w)
         IN  (CHOOSE x \in vs : \A y \in vs : x >= y)
             - (CHOOSE x \in vs : \A y \in vs : x <= y)

WindowCoverage(w) == IF w = <<>> THEN 0 ELSE w[Len(w)][1] - w[1][1]

\* The poll at which the wait declared the plateau stable.
DeclaredStable == pc = "w_ret" /\ waitResult = "stable"

\* The positions of the milestones of one kind in the step's log.
Positions(e) == {i \in DOMAIN log : log[i].ev = e}

\* The targets of the settlement waits of the step, in order.
WaitTags ==
    LET ws == SelectSeq(log, LAMBDA x : x.ev = "wait")
    IN  [i \in DOMAIN ws |-> ws[i].arg]

\* C1: whenever phase 2 declares the plateau stable, at that poll the span of
\* the retained window is within tol_c, the newest measurement is within the
\* acceptance band of the target, and the window covers window_duration, or
\* covers 95 % of it with the grace deadline end_required passed.
C1_StableImpliesSettled ==
    DeclaredStable =>
        /\ window_values # <<>>
        /\ WindowSpan(window_values) <= wp.tol_c
        /\ Abs(window_values[Len(window_values)][2] - wp.target_c)
               <= wp.target_temp_delta_c
        /\ \/ WindowCoverage(window_values) >= Max(1, wp.window_s)
           \/ /\ 100 * WindowCoverage(window_values) >= 95 * Max(1, wp.window_s)
              /\ now >= end_required

\* C1 witness: a plateau declared stable on the relaxed path, its window
\* covering less than window_duration.
C1_Witness ==
    /\ DeclaredStable
    /\ WindowCoverage(window_values) < Max(1, wp.window_s)

\* C2: every call of _wait_until_stable returns: phase 1 does not run past
\* its ceiling of 30 min and phase 2 not past max(60 min, 2 x window), by more
\* than one turn of the loop.
C2_WaitCeiling ==
    /\ pc = "p1_poll" =>
           (now - phase1_start) <= 30 * 60 + Max(1, wp.poll_s)
                                   + 5 + Max(10, wp.poll_s * 2) \div 2 + 10
    /\ pc = "p2_poll" =>
           (now - settle_start) <= Max(60 * 60, 2 * Max(1, wp.window_s))
                                   + Max(1, wp.poll_s)

\* C3: after a poll that violates the span tolerance or the band, the plateau
\* is declared stable only once window_duration seconds (95 % of it on the
\* relaxed path) have passed since that poll.
C3_FreshWindowAfterViolation ==
    (DeclaredStable /\ lastViolation # -1) =>
        IF WindowCoverage(window_values) >= Max(1, wp.window_s)
        THEN now - lastViolation >= Max(1, wp.window_s)
        ELSE 100 * (now - lastViolation) >= 95 * Max(1, wp.window_s)

\* C4: when every poll of a DWELL step reads the target, phase 2 declares the
\* plateau stable at its first poll taken a full window after it began: no
\* poll after that one finds it still waiting.
C4_ConstantReadingSettles ==
    (cycle_type = "DWELL" /\ pc = "p2_poll" /\ pollKinds = {"target"}) =>
        (now - Max(1, wp.poll_s)) - settle_start < Max(1, wp.window_s)

\* Every poll yields no measurement: the probe gives no number and the
\* controller gives none either.
NoReading == \A m \in read_meas : ~m.ok

\* C5: when every poll of a DWELL step yields no measurement, the wait does
\* not run past its ceilings (30 min in phase 1, max(60 min, 2 x window) in
\* phase 2), and the step whose wait was entered leads to the start of the
\* next step.
C5_NoMeasurementProceeds ==
    /\ []((NoReading /\ cycle_type = "DWELL") =>
            /\ pc = "p1_poll" =>
                   (now - phase1_start) <= 30 * 60 + Max(1, wp.poll_s)
            /\ pc = "p2_poll" =>
                   (now - settle_start)
                       <= Max(60 * 60, 2 * Max(1, wp.window_s))
                          + Max(1, wp.poll_s))
    /\ \A k \in 1 .. MaxProfileLen :
           (NoReading /\ cycle_type = "DWELL" /\ idx = k /\ pc = "w_enter")
               ~> (idx = k + 1 /\ pc = "set_sp")

\* C5 witness: with no measurement at any poll and a real chamber, the wait
\* of the first step ended on its ceiling and the second step has started.
C5_Witness ==
    /\ NoReading
    /\ ~Scen.simulation_mode
    /\ all_steps[1].temp_cycle_type = "DWELL"
    /\ idx = 2
    /\ pc = "set_sp"
    /\ waitResult = "timeout"

\* C6: a DWELL or SOAK step dispatches its tests only when the wait before
\* them ended with the plateau declared stable.
C6_TestsOnlyWhenStable ==
    (cycle_type \in {"DWELL", "SOAK"} /\ Positions("tests") # {}) =>
        waitResult = "stable"

C8_RampArrival ==
    (cycle_type = "RAMP" /\ pc = "p2_poll") => inBandRun < RampArrivalPolls

\* C9: an INT_CYCLE step declaring cycle_count = 2 has, when it ends, run the
\* four sub-phases HIGH, LOW, HIGH, LOW, each a wait followed by a rolling
\* pass on every path.
C9_FourSubPhases ==
    (cycle_type = "INT_CYCLE" /\ step.cycle_count = 2 /\ pc = "step_end") =>
        /\ WaitTags = <<"HIGH", "LOW", "HIGH", "LOW">>
        /\ \A w \in Positions("wait") : \A n \in DOMAIN Scen.paths :
               /\ w + n <= Len(log)
               /\ log[w + n] = Ev("rolling", log[w].arg, Scen.paths[n])

\* C10: a CYCLE step has, when it ends, waited at HIGH and then at LOW once
\* for each of its declared repetitions.
C10_CycleLikeIntCycle ==
    (cycle_type = "CYCLE" /\ pc = "step_end") =>
        WaitTags = [i \in 1 .. 2 * step.cycle_count |->
                       IF i % 2 = 1 THEN "HIGH" ELSE "LOW"]

\* C11: a CYCLE entry with cycle_count = N is replaced, in the expanded
\* profile, by 2N sub-steps whose targets alternate HIGH and LOW and which
\* keep the entry's other fields.
C11_CycleExpandsTo2N ==
    \A i \in DOMAIN Scen.document :
        LET entry == create_temp_step(Scen.document[i])
            subs == expand_all_cycles(<< entry >>)
        IN  entry.temp_cycle_type = "CYCLE" =>
                /\ Len(subs) = 2 * entry.cycle_count
                /\ \A k \in DOMAIN subs :
                       /\ subs[k].temperature =
                              IF k % 2 = 1 THEN entry.high_temp
                              ELSE entry.low_temp
                       /\ subs[k].settlement_window = entry.settlement_window
                       /\ subs[k].settlement_tolerance
                              = entry.settlement_tolerance
                       /\ subs[k].target_temp_delta = entry.target_temp_delta
                       /\ subs[k].monitoring_interval
                              = entry.monitoring_interval

\* C12: while a wait runs, the commanded setpoint is within 10 C of the base
\* setpoint (target plus offset), whatever the PID adjustments made so far.
C12_SetpointWithinMaxOffset ==
    waitResult = "running" /\ pc # "w_enter" =>
        Abs(sp - 100 * (wp.target_c + wp.temp_offset)) <= 10 * 1000

\* C12 witness: PID adjustments have driven the setpoint to the limit, 10 C
\* from the base setpoint, and the latest of them has just been applied.
C12_Witness ==
    /\ pc = "p1_settle"
    /\ last_pid_ts # -1
    /\ Abs(sp - 100 * (wp.target_c + wp.temp_offset)) = 10 * 1000

\* C13: between two consecutive setpoints written to the chamber, the change
\* is at most the rate limit times the time between the two writes, the rate
\* limit being that of the PID adjustments, 1 C per 10 s.
C13_SetpointRateLimited ==
    applied.n >= 2 =>
        10 * Abs(applied.sp - applied.prev) <= 1000 * applied.gap

\* C14: phase 1 is left at the first poll whose measurement is within
\* trigger_delta of the target, trigger_delta being the larger of the
\* acceptance band and the settlement tolerance: no measurement that close is
\* in the phase-1 window while phase 1 still runs.
C14_Phase2AtTriggerDelta ==
    pc \in {"p1_poll", "p1_settle"} =>
        \A i \in DOMAIN phase1_window_values :
            Abs(phase1_window_values[i][2] - wp.target_c)
                > Max(wp.target_temp_delta_c, wp.tol_c)

\* C15: once phase 2 of a wait has started it is never left for phase 1, and
\* no PID adjustment is made: from a phase-2 poll the wait polls again or
\* ends (by a return, by an exception of the probe or by the user's
\* interrupt), the setpoint and the time of the last adjustment unchanged.
C15_Phase2IsOneWay ==
    [][pc = "p2_poll" =>
          /\ pc' \in {"p2_poll", "w_ret", "raised", "interrupted"}
          /\ sp' = sp
          /\ last_pid_ts' = last_pid_ts
          /\ applied' = applied]_vars

\* C15 witness: a wait that adjusted the setpoint in phase 1 is in phase 2 and
\* has taken a phase-2 poll.
C15_Witness ==
    /\ pc = "p2_poll"
    /\ last_pid_ts # -1
    /\ now > settle_start

\* The wait has just left phase 1 at a poll that gave no measurement, before
\* the phase-1 ceiling.
LeftPhase1OnMissing ==
    /\ pc = "p2_poll"
    /\ now = settle_start
    /\ window_values = <<>>
    /\ missingRun > 0
    /\ (now - phase1_start) <= 30 * 60

\* C16: in simulation mode the wait gives up on measurements only after 3
\* polls in a row without one (phase 1) or 6 in a row (phase 2), a poll that
\* returns a measurement restarting the count.
C16_GivesUpAfterConsecutiveMissing ==
    Scen.simulation_mode =>
        /\ LeftPhase1OnMissing => missingRun >= 3
        /\ (pc = "w_ret" /\ waitResult = "bypass") => missingRun >= 6

\* C17: outside simulation mode a wait returns only on a measured stable
\* window or past the phase-2 ceiling, and a poll without a measurement ends
\* phase 1 only past the phase-1 ceiling.
C17_NoBypassOutsideSimulation ==
    ~Scen.simulation_mode =>
        /\ ~LeftPhase1OnMissing
        /\ pc = "w_ret" =>
               \/ /\ waitResult = "stable"
                  /\ missingRun = 0
                  /\ window_values # <<>>
                  /\ window_values[Len(window_values)][1] = now
               \/ /\ waitResult = "timeout"
                  /\ (now - settle_start)
                         > Max(60 * 60, 2 * Max(1, wp.window_s))

\* C17 witness: outside simulation mode a wait in which polls went without a
\* measurement has returned on a stable window.
C17_Witness ==
    /\ ~Scen.simulation_mode
    /\ pc = "w_ret"
    /\ waitResult = "stable"
    /\ "none" \in pollKinds

\* The exception that ended run_thermal_cycle came from this source.
RaisedBy(source) ==
    /\ pc = "raised"
    /\ log # <<>>
    /\ log[Len(log)].ev = "raised"
    /\ log[Len(log)].arg \in source

\* C18: no failure of an instrument call ends run_thermal_cycle: whatever the
\* probe read raises, the run goes on.
C18_InstrumentFailureNeverAborts == ~RaisedBy({"probe"})

\* C19: no failure of a test dispatch ends the cycle, neither one raised by a
\* test family of a DWELL or SOAK step nor one raised by a rolling test pass
\* of INT_CYCLE: the step goes on to its dwell or soak.
C19_TestFailureNeverEndsCycle ==
    ~RaisedBy({"pin_pout_functional", "sig_a_performance", "na_performance",
               "rolling"})

\* C20: a setpoint the controller rejected is written again later: the run
\* does not end with a rejected write as the last write of a setpoint.
C20_RejectedSetpointReattempted == pc = "done" => applied.tries = 0

InWait == pc \in {"w_enter", "w_delay", "p1_poll", "p1_settle", "p2_poll", "w_ret"}

C24_InterruptPowersOff == pc = "interrupted" => ~psu_output

\* run_thermal_cycle has returned or has been left by an exception.
Ended == pc \in {"done", "raised", "interrupted"}

\* The executions of run_thermal_cycle that are active on the manager.
ActiveRuns == (IF Ended THEN 0 ELSE 1) + other_runs

\* C25: at most one execution of run_thermal_cycle is active on the manager,
\* also when the Start action of the live view is triggered during a run.
C25_SingleActiveRun == ActiveRuns <= 1

\* The step_complete row of the current step is in the telemetry file.
StepCompleteWritten == \E i \in DOMAIN csv : csv[i] = Row("step_complete")

\* C26: with set_telemetry_callback called from another thread at any point,
\* the run is never ended by an exception; the row of an emission is in the
\* file when its callback is about to be called and after it; and calling a
\* callback that was detached after the not-None check does not end the run.
C26_CallbackSwapIsHarmless ==
    /\ []("live_view" \in Scen.faults => pc # "raised")
    /\ [](pc \in {"sc_callback", "step_end"} => StepCompleteWritten)
    /\ [][(pc = "sc_callback" /\ user_cb = "none") => pc' # "raised"]_vars

\* C26 witness: the step_complete emission found a callback attached, the
\* callback was detached before the call, and the step has ended with its row
\* written.
C26_Witness ==
    /\ pc = "step_end"
    /\ user_cb = "none"
    /\ log # <<>>
    /\ log[Len(log)] = Ev("callback", "detached", "")
    /\ csv[Len(csv)] = Row("step_complete")

\* The start and step_complete rows of a telemetry file, in order.
Milestones(rows) ==
    SelectSeq(rows, LAMBDA r : r[2] \in {"start", "step_complete"})

\* start(1), step_complete(1), ..., start(n), step_complete(n).
StartCompletePairs(n) ==
    [i \in 1 .. 2 * n |->
        << (i + 1) \div 2, IF i % 2 = 1 THEN "start" ELSE "step_complete" >>]

C28_MilestonesAlwaysRecorded ==
    \A e \in {"ramp", "dwell", "soak"} :
        Positions(e) # {} => \E i \in DOMAIN csv : csv[i] = Row(e)

\* C29: no exception of a live read made for a telemetry record ends the run:
\* _log_telemetry does not raise.
C29_TelemetryNeverRaises == ~RaisedBy({"telemetry"})

\* C30: no exception of the user's telemetry callback ends the run: the call
\* that emitted the record returns normally.
C30_CallbackFailureIsIsolated == ~RaisedBy({"callback"})

\* C31: every line of the telemetry file has as many columns as its header.
C31_RowsHaveHeaderColumns ==
    \A i \in DOMAIN telemetry_file :
        columns(telemetry_file[i]) = columns(telemetry_file[1])

\* C32: after a phase-2 poll that took a sample, the stability window holds,
\* in non-decreasing order of time, only samples taken within the last
\* window_duration seconds before that poll.
C32_WindowHoldsNoStaleSample ==
    (pc \in {"p2_poll", "w_ret"} /\ window_values # <<>>) =>
        LET polled == window_values[Len(window_values)][1]
        IN  /\ \A i \in DOMAIN window_values :
                /\ window_values[i][1] >= polled - window_duration
                /\ window_values[i][1] <= polled
            /\ \A i \in 1 .. Len(window_values) - 1 :
                window_values[i][1] <= window_values[i + 1][1]

\* The document is a list of objects that have every required field.
WellFormed(document) ==
    /\ document.kind = "list"
    /\ \A i \in DOMAIN document.items :
        document.items[i] = RequiredFields

\* C33: only a well-formed document is turned into a list of steps that
\* run_thermal_cycle goes on to execute: loading any other document fails.
C33_MalformedProfileFailsAtLoad ==
    profile_load.at \in {"loaded", "completed"} => WellFormed(profile_document)

\* C34: when main has ended it has returned a code: 2 when the profile path
\* does not exist, 0 when the run completed, 130 on the user's interrupt and
\* 1 on any other failure raised by the run.
C34_ExitCodes ==
    runner.pc \in {"exited", "propagated"} =>
        /\ runner.pc = "exited"
        /\ runner.code =
              IF ~cli_args.exists THEN 2
              ELSE IF runner.error = "" THEN 0
              ELSE IF runner.error = "KeyboardInterrupt" THEN 130
              ELSE 1

\* The last reading of the wait.
LastSample == runner.samples[Len(runner.samples)]

\* C39: when _set_setpoint_and_wait has returned, its last reading was within
\* the tolerance and ended a stretch of at least stability_seconds, begun by
\* a reading within the tolerance, in which no reading was outside it.
C39_ReturnsOnlyWhenStable ==
    runner.pc = "plateau" =>
        /\ LastSample[2] = "in"
        /\ \E i \in DOMAIN runner.samples :
            /\ runner.samples[i][2] = "in"
            /\ LastSample[1] - runner.samples[i][1]
                  >= cli_args.stability_seconds
            /\ \A j \in i .. Len(runner.samples) :
                runner.samples[j][2] # "out"

\* C39 witness: the wait has returned after a reading outside the tolerance,
\* which restarted the timer, and a failed read inside the stable stretch.
C39_Witness ==
    /\ runner.pc = "plateau"
    /\ cli_args.stability_seconds = 10
    /\ Len(runner.samples) = 4
    /\ runner.samples[1][2] = "out"
    /\ runner.samples[3][2] = "fail"

\* C40: the chamber has been switched, a setpoint written or a test run only
\* for a profile with at least one step and with a source of paths given,
\* the profile's "paths" or the path argument.
C40_ChamberOnlyWithStepsAndPaths ==
    (runner.chamber > 0 \/ runner.setpoints > 0 \/ runner.tests > 0) =>
        /\ cli_args.steps >= 1
        /\ cli_args.profile_paths # "None" \/ cli_args.path # "None"

\* C40 witness: run_profile has switched the chamber on for a profile that
\* has steps and no "paths", the paths coming from the argument.
C40_Witness ==
    /\ runner.chamber = 1
    /\ runner.pc = "set_setpoint"
    /\ cli_args.profile_paths = "None"
    /\ cli_args.path = "list"

\* C35: a poll of phase 1 adjusts the setpoint only when its reading is
\* outside the target band, the span of the phase-1 window is at most 0.75 of
\* the tolerance, the window covers at least 15 s and at least half the
\* phase-1 window, and the previous adjustment of this wait, if any, is at
\* least min_pid_interval_s (10 s, or two polls if longer) old.
C35_PidOnlyWhenStableOutsideBand ==
    [][ pc = "p1_poll" /\ pc' = "p1_settle" =>
          LET w == phase1_window_values'
              meas == w[Len(w)][2]
          IN  /\ w # <<>>
              /\ w[Len(w)][1] = now
              /\ Abs(meas - wp.target_c) > wp.target_temp_delta_c
              /\ 4 * WindowSpan(w) <= 3 * wp.tol_c
              /\ WindowCoverage(w) >= 15
              /\ 2 * WindowCoverage(w) >= Max(30, wp.window_s \div 4)
              /\ last_pid_ts # -1 =>
                     now - last_pid_ts >= Max(10, 2 * wp.poll_s)
              /\ last_pid_ts' = now ]_vars

\* C35 witness: the second adjustment of a wait has just been made, 1 C each,
\* the reading still outside the band.
C35_Witness ==
    /\ pc = "p1_settle"
    /\ Abs(sp - base_sp) = 2000
    /\ now - last_pid_ts <= 5
    /\ phase1_window_values # <<>>
    /\ ~in_band(phase1_window_values[Len(phase1_window_values)][2])

\* C36: when the phase-1 loop polls again after a PID adjustment of the
\* current wait, at least the base settling time of 60 s has passed since
\* the adjustment.
C36_SettlesSixtySecondsAfterAdjustment ==
    pc = "p1_poll" /\ last_pid_ts # -1 => now - last_pid_ts >= 60

\* C37: the initial delay and the tolerance a wait is called with are those
\* of the step, a declared zero included (an undeclared field holds its
\* default, 60 s and 0.6 C).
C37_DeclaredSettlementParameters ==
    InWait =>
        /\ wp.initial_delay_s = step.initial_delay
        /\ wp.tol_c = step.settlement_tolerance

\* The positions at which the model moves the origin of the clock.
ClockShift == IF pc \in {"step_start", "w_enter", "w_ret"} THEN now ELSE 0

\* The rows of the telemetry file that went through _maybe_log_telemetry.
RateLimited(rows) ==
    {i \in DOMAIN rows : rows[i][2] \in {"ramp", "dwell", "soak"}}

====
